---- MODULE Spec2Model ----
(***************************************************************************)
(* hermes: a schema-migration tool.  The model covers the chain builder    *)
(* (src/src/migration_chain.py), the version marker, the executor          *)
(* (src/src/utils.py) and the upgrade / downgrade commands (src/main.py).  *)
(*                                                                         *)
(* Strings that the code takes apart (folder names, SQL files) are         *)
(* sequences of one-character strings; version identifiers are atomic      *)
(* one-character strings, "" is the empty string and None is Python's None.*)
(***************************************************************************)
EXTENDS Integers, Sequences, FiniteSets

\* ------------------------------------------------------------------ bounds
\* Largest number of units in a generated migration directory.
MaxUnits == 3
\* Largest number of nodes the forward walk of build_list may append.
MaxChain == 4
\* Largest number of injected connection faults in one invocation.
MaxFaults == 1
\* Largest number of build_list calls on one chain object.
MaxCalls == 2

\* ------------------------------------------------------------------ values
None == "None"
VersionIds == <<"A", "B", "C", "D">>
Ghost == "Z"

\* Python truthiness of an optional string: None and "" are both falsy.
Falsy(s) == s = None \/ s = ""

\* The characters of a version identifier.
Chars(v) == IF v = "" THEN <<>> ELSE <<v>>

\* ------------------------------------------------------------------ strings
IsSpace(c) == c = " "

RECURSIVE LStrip(_)
LStrip(s) == IF s # <<>> /\ IsSpace(Head(s)) THEN LStrip(Tail(s)) ELSE s

RECURSIVE RStrip(_)
RStrip(s) ==
    IF s # <<>> /\ IsSpace(s[Len(s)]) THEN RStrip(SubSeq(s, 1, Len(s) - 1)) ELSE s

\* str.strip()
Strip(s) == RStrip(LStrip(s))

\* Does the delimiter d (a character sequence) start at position i of s?
StartsAt(s, d, i) ==
    /\ i + Len(d) - 1 <= Len(s)
    /\ \A k \in 1..Len(d) : s[i + k - 1] = d[k]

\* str.split(d): the pieces of s between the non-overlapping, leftmost-first
\* occurrences of d.  cur is the piece being read, i the read position.
RECURSIVE SplitFrom(_, _, _, _)
SplitFrom(s, d, i, cur) ==
    IF i > Len(s) THEN <<cur>>
    ELSE IF StartsAt(s, d, i) THEN <<cur>> \o SplitFrom(s, d, i + Len(d), <<>>)
    ELSE SplitFrom(s, d, i + 1, Append(cur, s[i]))

Split(s, d) == SplitFrom(s, d, 1, <<>>)

\* `d in s` for strings.
Contains(s, d) == \E i \in 1..Len(s) : StartsAt(s, d, i)

Sep == <<"-", "-">>
Semi == <<";">>

RECURSIVE SelectNonBlank(_)
SelectNonBlank(ps) ==
    IF ps = <<>> THEN <<>>
    ELSE IF Strip(Head(ps)) # <<>>
         THEN <<Strip(Head(ps))>> \o SelectNonBlank(Tail(ps))
         ELSE SelectNonBlank(Tail(ps))

\* A slip in the list comprehension: blank fragments are not discarded.
SplitStatements_keeping_blanks(sql_content) == Split(sql_content, Semi)

\* [stmt.strip() for stmt in sql_content.split(";") if stmt.strip()]
SplitStatements(sql_content) == SelectNonBlank(Split(sql_content, Semi))

\* ------------------------------------------------------------------ units
\* A slip in the comparison: the folder name only has to start with the version.
compare_by_startswith(version, full_folder_name) ==
    /\ Len(full_folder_name) >= Len(Chars(version))
    /\ SubSeq(full_folder_name, 1, Len(Chars(version))) = Chars(version)

\* split("--")[0] == version.

compare_migration_folder_name_with_version(version, full_folder_name) ==
    Split(full_folder_name, Sep)[1] = Chars(version)

\* A slip in the last test: only upgrade.sql is required.
is_valid_requiring_upgrade_only(path) ==
    /\ path.is_dir
    /\ Contains(path.name, Sep)
    /\ path.info_json
    /\ path.upgrade.is_file

is_valid_migration_directory(path) ==
    /\ path.is_dir
    /\ Contains(path.name, Sep)
    /\ path.info_json
    /\ path.upgrade.is_file
    /\ path.downgrade.is_file

\* The warning is_valid_migration_directory logs for the path before it returns
\* False ("none" when it returns True without logging).
warning_of(path) ==
    IF ~path.is_dir THEN "not_a_directory"
    ELSE IF ~Contains(path.name, Sep) THEN "no_separator"
    ELSE IF ~path.info_json THEN "no_info_json"
    ELSE IF ~path.upgrade.is_file \/ ~path.downgrade.is_file THEN "no_script"
    ELSE "none"

\* The warnings the filter of build_list logs, one per rejected entry, in order.
RECURSIVE FilterWarnings(_)
FilterWarnings(ds) ==
    IF ds = <<>> THEN <<>>
    ELSE IF is_valid_migration_directory(Head(ds))
         THEN FilterWarnings(Tail(ds))
         ELSE <<[dir |-> Head(ds).name, warning |-> warning_of(Head(ds))]>>
              \o FilterWarnings(Tail(ds))

\* A slip in build_list: the directory listing is not filtered.
keep_all(ds) == ds

\* The sub-sequence of s whose elements satisfy the validity check, in order.
RECURSIVE FilterValid(_)
FilterValid(ds) ==
    IF ds = <<>> THEN <<>>
    ELSE IF is_valid_migration_directory(Head(ds))
         THEN <<Head(ds)>> \o FilterValid(Tail(ds))
         ELSE FilterValid(Tail(ds))

\* ------------------------------------------------------------------ state
VARIABLES
    dir,             \* the migration directory: its entries in iterdir() order
    table_exists,    \* does the table ch_migrations exist in the database
    rows,            \* the rows of ch_migrations (each row is a version string)
    op,              \* the command of this invocation: "upgrade" | "downgrade"
    revision,        \* its positional argument
    pc,              \* position of the command
    bpc,             \* position inside MigrationChain.build_list
    calls,           \* number of build_list calls made on the chain object
    migration_dirs,  \* build_list's local list of valid directories
    nodes,           \* the MigrationNodes in link order (node k: nodes[k].info)
    head,            \* MigrationChain.head: an index into nodes, 0 for None
    tail,            \* MigrationChain.tail: an index into nodes, 0 for None
    is_initialized,  \* MigrationChain._is_initialized
    errors,          \* versions named by the "Migration chain broken" errors
    warnings,        \* the warnings logged by the chain builder, in order
    allocated,       \* number of MigrationNode objects constructed so far
    current_version, \* MigrationContext.current_version
    plan,            \* migrations_to_run: indices into nodes
    pos,             \* index in plan of the node run_migration is working on
    statements,      \* the statements of that node's script
    si,              \* number of loop iterations execute_sql_statements began
    log,             \* every call made on the database connection, in order
    faults,          \* connection faults injected so far
    halt,            \* the error run_migration logged before returning early
    report,          \* what the command told the operator
    lookup           \* the find_by_version call made on the chain as a library

buildvars == <<bpc, calls, migration_dirs, nodes, head, tail, is_initialized, errors,
               warnings, allocated>>
dbvars == <<table_exists, rows, log, faults>>
runvars == <<plan, pos, statements, si, halt>>
vars == <<dir, op, revision, pc, current_version, report, lookup, buildvars, dbvars,
          runvars>>

\* ------------------------------------------------------------------ files
NoFile == [is_file |-> FALSE, text |-> <<>>]
File(t) == [is_file |-> TRUE, text |-> t]
NoInfo == [state |-> "missing", version |-> "", previous_version |-> None,
           next_version |-> None]
Info(v, p, n) == [state |-> "ok", version |-> v, previous_version |-> p,
                  next_version |-> n]

\* A well-formed unit directory "<v>--m" as the `new` command lays it out,
\* with the info.json marker file the validity check looks for.
Unit(v, p, n, up, down) ==
    [name |-> Chars(v) \o Sep \o <<"m">>, is_dir |-> TRUE, info_json |-> TRUE,
     info_toml |-> Info(v, p, n), upgrade |-> File(up), downgrade |-> File(down)]

\* A plain file: it has no children.
PlainFile(nm) ==
    [name |-> nm, is_dir |-> FALSE, info_json |-> FALSE, info_toml |-> NoInfo,
     upgrade |-> NoFile, downgrade |-> NoFile]

\* ------------------------------------------------------------------ chain
\* A slip in _find_first_migration: the first directory is taken as the head
\* whatever its previous_version.
find_first_unconditional(ds) ==
    IF ds = <<>> THEN [status |-> "none", info |-> NoInfo]
    ELSE IF Head(ds).info_toml.state # "ok"
         THEN [status |-> "raised", info |-> NoInfo]
    ELSE [status |-> "found", info |-> Head(ds).info_toml]

\* _find_first_migration: the first valid directory whose metadata has a falsy
\* previous_version; opening or parsing a directory's info.toml on the way
\* raises when the file is missing or malformed.
RECURSIVE find_first_migration(_)
find_first_migration(ds) ==
    IF ds = <<>> THEN [status |-> "none", info |-> NoInfo]
    ELSE IF Head(ds).info_toml.state # "ok"
         THEN [status |-> "raised", info |-> NoInfo]
    ELSE IF Falsy(Head(ds).info_toml.previous_version)
         THEN [status |-> "found", info |-> Head(ds).info_toml]
    ELSE find_first_migration(Tail(ds))

\* A slip in the inner for-loop: the search starts at the second directory.
RECURSIVE find_next_skipping_first(_, _)
find_next_skipping_first(ds, wanted) ==
    LET rest == IF ds = <<>> THEN <<>> ELSE Tail(ds)
        hits == SelectSeq(rest,
                    LAMBDA d : compare_migration_folder_name_with_version(wanted, d.name))
    IN  IF hits = <<>> THEN [status |-> "none", info |-> NoInfo]
        ELSE IF Head(hits).info_toml.state # "ok"
             THEN [status |-> "raised", info |-> NoInfo]
        ELSE [status |-> "found", info |-> Head(hits).info_toml]

\* The inner for-loop of build_list: the first directory of ds whose name
\* prefix equals the wanted version.
RECURSIVE find_next(_, _)
find_next(ds, wanted) ==
    IF ds = <<>> THEN [status |-> "none", info |-> NoInfo]
    ELSE IF ~compare_migration_folder_name_with_version(wanted, Head(ds).name)
         THEN find_next(Tail(ds), wanted)
    ELSE IF Head(ds).info_toml.state # "ok"
         THEN [status |-> "raised", info |-> NoInfo]
    ELSE [status |-> "found", info |-> Head(ds).info_toml]

\* MigrationNode(info=..., previous=..., next=...): links are indices into nodes.
Node(info, previous, next) == [info |-> info, previous |-> previous, next |-> next]

\* A slip in the found branch: the new node is built without `previous`.
link_after_forward_only(ns, info) ==
    Append([ns EXCEPT ![Len(ns)].next = Len(ns) + 1], Node(info, 0, 0))

\* build_list, found branch: a new node is linked after the current (last) one.
link_after(ns, info) ==
    Append([ns EXCEPT ![Len(ns)].next = Len(ns) + 1], Node(info, Len(ns), 0))

\* A slip in the not-found branch: the loop is left without logging.
log_broken_silent(errs, version) == errs

\* build_list, not-found branch: the "Migration chain broken" error.
log_broken(errs, version) == Append(errs, version)

\* No find_by_version call has been made.
NoLookup == [state |-> "idle", version |-> "", node |-> 0]

\* The control position after build_list returns or raises to its caller.
AfterBuild(raised) ==
    IF pc = "build" THEN (IF raised THEN "crashed" ELSE "create_table") ELSE pc

ReportAfterBuild(raised) ==
    IF pc = "build" /\ raised THEN "exception" ELSE report

\* A slip in the guard of build_list: the chain is rebuilt on every call.
never_built(initialized) == FALSE

\* The guard of build_list: `if self._is_initialized: return`.
already_built(initialized) == initialized

\* build_list up to the start of the while loop.
build_list_begin ==
    /\ pc \in {"build", "lib"}
    /\ bpc \in {"idle", "raised"}
    /\ calls < MaxCalls
    /\ calls' = calls + 1
    /\ IF already_built(is_initialized)
       THEN /\ pc' = AfterBuild(FALSE)
            /\ UNCHANGED <<bpc, migration_dirs, nodes, head, tail, is_initialized,
                           errors, warnings, allocated, report>>
       ELSE LET ds == FilterValid(dir)
                first == find_first_migration(ds)
            IN  /\ migration_dirs' = ds
                /\ warnings' = warnings \o FilterWarnings(dir)
                /\ UNCHANGED <<tail, is_initialized, errors>>
                /\ CASE first.status = "raised" ->
                          /\ bpc' = "raised"
                          /\ pc' = AfterBuild(TRUE)
                          /\ report' = ReportAfterBuild(TRUE)
                          /\ UNCHANGED <<nodes, head, allocated>>
                     [] first.status = "none" ->
                          /\ bpc' = "idle"
                          /\ pc' = AfterBuild(FALSE)
                          /\ UNCHANGED <<nodes, head, allocated, report>>
                     [] first.status = "found" ->
                          /\ bpc' = "walk"
                          /\ nodes' = <<Node(first.info, 0, 0)>>
                          /\ allocated' = allocated + 1
                          /\ head' = 1
                          /\ UNCHANGED <<pc, report>>
    /\ UNCHANGED <<dir, op, revision, current_version, dbvars, runvars>>

\* A call of build_list by a command or by a user of the chain.
build_list_enter ==
    /\ lookup.state # "building"
    /\ build_list_begin
    /\ UNCHANGED lookup

\* One iteration of build_list's while loop, or its exit.
build_list_walk ==
    /\ bpc = "walk"
    /\ LET current_migration == nodes[Len(nodes)].info
           nxt == find_next(migration_dirs, current_migration.next_version)
       IN  IF Falsy(current_migration.next_version)
           THEN /\ tail' = Len(nodes)
                /\ is_initialized' = TRUE
                /\ bpc' = "idle"
                /\ pc' = AfterBuild(FALSE)
                /\ UNCHANGED <<nodes, allocated, errors, report>>
           ELSE CASE nxt.status = "found" ->
                      /\ Len(nodes) < MaxChain
                      /\ nodes' = link_after(nodes, nxt.info)
                      /\ allocated' = allocated + 1
                      /\ UNCHANGED <<tail, is_initialized, bpc, pc, errors, report>>
                  [] nxt.status = "raised" ->
                      /\ bpc' = "raised"
                      /\ pc' = AfterBuild(TRUE)
                      /\ report' = ReportAfterBuild(TRUE)
                      /\ UNCHANGED <<nodes, allocated, tail, is_initialized, errors>>
                  [] nxt.status = "none" ->
                      /\ errors' = log_broken(errors, current_migration.next_version)
                      /\ tail' = Len(nodes)
                      /\ is_initialized' = TRUE
                      /\ bpc' = "idle"
                      /\ pc' = AfterBuild(FALSE)
                      /\ UNCHANGED <<nodes, allocated, report>>
    /\ UNCHANGED <<dir, op, revision, current_version, calls, migration_dirs, head,
                   warnings, dbvars, runvars>>
    /\ UNCHANGED lookup

\* node.next and node.previous (0 for None).
NextOf(k) == nodes[k].next
PreviousOf(k) == nodes[k].previous

\* A slip in the loop of find_by_version: it gives up after the first node.
FindFrom_first_only(k, version) ==
    IF k # 0 /\ nodes[k].info.version = version THEN k ELSE 0

\* The loop of find_by_version from node k.
RECURSIVE FindFrom(_, _)
FindFrom(k, version) ==
    IF k = 0 THEN 0
    ELSE IF nodes[k].info.version = version THEN k
    ELSE FindFrom(NextOf(k), version)

\* find_by_version: the first node from head, following next, with this version
\* (0 for None).  On a chain that is not initialized it first calls build_list;
\* a command reaches that case only when build_list found no first migration,
\* and over the unchanged directory the second call finds none again.
find_by_version(version) == FindFrom(head, version)

\* The versions of the first n units.
Versions(n) == {VersionIds[i] : i \in 1..n}

\* The versions asked for and compared with: those of the units, a version of
\* no unit, and the empty version.
ComparedVersions == {VersionIds[i] : i \in 1..Len(VersionIds)} \cup {Ghost, ""}

\* find_by_version called by a user of the chain: on a chain that is not
\* initialized it calls build_list before it searches.
find_by_version_call ==
    /\ pc = "lib"
    /\ bpc \in {"idle", "raised"}
    /\ lookup.state = "idle"
    /\ \E version \in ComparedVersions :
         IF is_initialized
         THEN /\ lookup' = [state |-> "returned", version |-> version,
                            node |-> find_by_version(version)]
              /\ UNCHANGED <<dir, op, revision, pc, current_version, report,
                             buildvars, dbvars, runvars>>
         ELSE /\ build_list_begin
              /\ lookup' = [state |-> "building", version |-> version, node |-> 0]

\* find_by_version after its build_list call: the exception propagates, or the
\* search runs over the chain just built.
find_by_version_loop ==
    /\ lookup.state = "building"
    /\ bpc # "walk"
    /\ lookup' = IF bpc = "raised"
                 THEN [lookup EXCEPT !.state = "raised"]
                 ELSE [lookup EXCEPT !.state = "returned",
                                     !.node = find_by_version(lookup.version)]
    /\ UNCHANGED <<dir, op, revision, pc, current_version, report, buildvars, dbvars,
                   runvars>>

\* The nodes from k to the end of the chain, following next.
RECURSIVE Forward(_)
Forward(k) == IF k = 0 THEN <<>> ELSE <<k>> \o Forward(NextOf(k))

\* The nodes from k back to the start of the chain, following previous.
RECURSIVE Backward(_)
Backward(k) == IF k = 0 THEN <<>> ELSE <<k>> \o Backward(PreviousOf(k))

\* ------------------------------------------------------------------ planner
\* A slip in the head branch: the walk starts at the current node itself.
upgrade_plan_from_current ==
    IF revision = "head"
    THEN IF tail = 0 THEN [status |-> "fault", plan |-> <<>>]
         ELSE IF nodes[tail].info.version = current_version
              THEN [status |-> "already", plan |-> <<>>]
         ELSE IF current_version = ""
              THEN [status |-> "run", plan |-> Forward(head)]
         ELSE IF find_by_version(current_version) = 0
              THEN [status |-> "exception", plan |-> <<>>]
         ELSE [status |-> "run", plan |-> Forward(find_by_version(current_version))]
    ELSE IF find_by_version(revision) = 0
         THEN [status |-> "exception", plan |-> <<>>]
    ELSE IF revision = current_version
         THEN [status |-> "already", plan |-> <<>>]
    ELSE [status |-> "run", plan |-> <<find_by_version(revision)>>]

\* A slip in the head branch: the "Already at head" test is missing.
upgrade_plan_without_head_test ==
    IF revision = "head"
    THEN IF tail = 0 THEN [status |-> "fault", plan |-> <<>>]
         ELSE IF current_version = ""
              THEN [status |-> "run", plan |-> Forward(head)]
         ELSE IF find_by_version(current_version) = 0
              THEN [status |-> "exception", plan |-> <<>>]
         ELSE [status |-> "run",
               plan |-> Forward(NextOf(find_by_version(current_version)))]
    ELSE IF find_by_version(revision) = 0
         THEN [status |-> "exception", plan |-> <<>>]
    ELSE IF revision = current_version
         THEN [status |-> "already", plan |-> <<>>]
    ELSE [status |-> "run", plan |-> <<find_by_version(revision)>>]

\* A slip in the specific-revision branch: every node from the one after the
\* current node through the target is collected.
upgrade_plan_walking ==
    IF revision = "head"
    THEN IF tail = 0 THEN [status |-> "fault", plan |-> <<>>]
         ELSE IF nodes[tail].info.version = current_version
              THEN [status |-> "already", plan |-> <<>>]
         ELSE IF current_version = ""
              THEN [status |-> "run", plan |-> Forward(head)]
         ELSE IF find_by_version(current_version) = 0
              THEN [status |-> "exception", plan |-> <<>>]
         ELSE [status |-> "run",
               plan |-> Forward(NextOf(find_by_version(current_version)))]
    ELSE IF find_by_version(revision) = 0
         THEN [status |-> "exception", plan |-> <<>>]
    ELSE IF revision = current_version
         THEN [status |-> "already", plan |-> <<>>]
    ELSE [status |-> "run",
          plan |-> SelectSeq(Forward(head),
                       LAMBDA k : /\ k > find_by_version(current_version)
                                  /\ k <= find_by_version(revision))]

\* upgrade, from the revision test to migrations_to_run.  "exception" is the
\* ValueError the command raises itself; "fault" is the AttributeError of
\* `migration_list.tail.info` on a chain whose tail is None.
upgrade_plan ==
    IF revision = "head"
    THEN IF tail = 0 THEN [status |-> "fault", plan |-> <<>>]
         ELSE IF nodes[tail].info.version = current_version
              THEN [status |-> "already", plan |-> <<>>]
         ELSE IF current_version = ""
              THEN [status |-> "run", plan |-> Forward(head)]
         ELSE IF find_by_version(current_version) = 0
              THEN [status |-> "exception", plan |-> <<>>]
         ELSE [status |-> "run",
               plan |-> Forward(NextOf(find_by_version(current_version)))]
    ELSE IF find_by_version(revision) = 0
         THEN [status |-> "exception", plan |-> <<>>]
    ELSE IF revision = current_version
         THEN [status |-> "already", plan |-> <<>>]
    ELSE [status |-> "run", plan |-> <<find_by_version(revision)>>]

\* The nodes the specific-revision loop of downgrade collects: from k back to
\* the node before the first one whose version is the revision.
RECURSIVE BackwardUntil(_, _)
BackwardUntil(k, rev) ==
    IF k = 0 \/ nodes[k].info.version = rev THEN <<>>
    ELSE <<k>> \o BackwardUntil(PreviousOf(k), rev)

\* Where that loop stops: the node with the revision, or 0 when it ran out.
RECURSIVE StopOf(_, _)
StopOf(k, rev) ==
    IF k = 0 \/ nodes[k].info.version = rev THEN k ELSE StopOf(PreviousOf(k), rev)

\* A slip in the base branch: the walk starts below the current node.
downgrade_plan_below_current ==
    IF current_version = "" THEN [status |-> "already", plan |-> <<>>]
    ELSE IF find_by_version(current_version) = 0
         THEN [status |-> "error", plan |-> <<>>]
    ELSE IF revision = "base"
         THEN [status |-> "run",
               plan |-> Backward(PreviousOf(find_by_version(current_version)))]
    ELSE IF find_by_version(revision) = 0
         THEN [status |-> "error", plan |-> <<>>]
    ELSE IF revision = current_version
         THEN [status |-> "already", plan |-> <<>>]
    ELSE IF StopOf(find_by_version(current_version), revision) = 0
         THEN [status |-> "error", plan |-> <<>>]
    ELSE [status |-> "run",
          plan |-> BackwardUntil(find_by_version(current_version), revision)]

\* A slip in the specific-revision branch: the target node is collected too.
downgrade_plan_through_target ==
    IF current_version = "" THEN [status |-> "already", plan |-> <<>>]
    ELSE IF find_by_version(current_version) = 0
         THEN [status |-> "error", plan |-> <<>>]
    ELSE IF revision = "base"
         THEN [status |-> "run", plan |-> Backward(find_by_version(current_version))]
    ELSE IF find_by_version(revision) = 0
         THEN [status |-> "error", plan |-> <<>>]
    ELSE IF revision = current_version
         THEN [status |-> "already", plan |-> <<>>]
    ELSE IF StopOf(find_by_version(current_version), revision) = 0
         THEN [status |-> "error", plan |-> <<>>]
    ELSE [status |-> "run",
          plan |-> Append(BackwardUntil(find_by_version(current_version), revision),
                          StopOf(find_by_version(current_version), revision))]

\* A slip in the specific-revision branch: a target equal to the marker is
\* handled as a full unwind.
downgrade_plan_unwinding_current ==
    IF current_version = "" THEN [status |-> "already", plan |-> <<>>]
    ELSE IF find_by_version(current_version) = 0
         THEN [status |-> "error", plan |-> <<>>]
    ELSE IF revision = "base"
         THEN [status |-> "run", plan |-> Backward(find_by_version(current_version))]
    ELSE IF find_by_version(revision) = 0
         THEN [status |-> "error", plan |-> <<>>]
    ELSE IF revision = current_version
         THEN [status |-> "run", plan |-> Backward(find_by_version(current_version))]
    ELSE IF StopOf(find_by_version(current_version), revision) = 0
         THEN [status |-> "error", plan |-> <<>>]
    ELSE [status |-> "run",
          plan |-> BackwardUntil(find_by_version(current_version), revision)]

\* downgrade, from the current_version test to migrations_to_run.
downgrade_plan ==
    IF current_version = "" THEN [status |-> "already", plan |-> <<>>]
    ELSE IF find_by_version(current_version) = 0
         THEN [status |-> "error", plan |-> <<>>]
    ELSE IF revision = "base"
         THEN [status |-> "run", plan |-> Backward(find_by_version(current_version))]
    ELSE IF find_by_version(revision) = 0
         THEN [status |-> "error", plan |-> <<>>]
    ELSE IF revision = current_version
         THEN [status |-> "already", plan |-> <<>>]
    ELSE IF StopOf(find_by_version(current_version), revision) = 0
         THEN [status |-> "error", plan |-> <<>>]
    ELSE [status |-> "run",
          plan |-> BackwardUntil(find_by_version(current_version), revision)]

\* ------------------------------------------------------------------ database
Event(kind, version, idx, ok) ==
    [kind |-> kind, version |-> version, idx |-> idx, ok |-> ok]

\* The database rejects a statement that contains the character "b".
Rejected(stmt) == \E i \in 1..Len(stmt) : stmt[i] = "b"

\* initialize_migration_context: the schema-ensure step.  The connection may
\* fail to open (caught by the caller, which returns None); a failure of the
\* CREATE TABLE itself is logged inside create_migratino_table and swallowed.
create_migratino_table ==
    /\ pc = "create_table"
    /\ \/ /\ faults < MaxFaults
          /\ faults' = faults + 1
          /\ pc' = "done"
          /\ report' = "init_failed"
          /\ UNCHANGED <<table_exists, log>>
       \/ /\ faults < MaxFaults
          /\ faults' = faults + 1
          /\ log' = Append(log, Event("create", "", 0, FALSE))
          /\ pc' = "read_version"
          /\ UNCHANGED <<table_exists, report>>
       \/ /\ table_exists' = TRUE
          /\ log' = Append(log, Event("create", "", 0, TRUE))
          /\ pc' = "read_version"
          /\ UNCHANGED <<faults, report>>
    /\ UNCHANGED <<dir, op, revision, current_version, rows, buildvars, runvars>>
    /\ UNCHANGED lookup

\* get_current_db_migration_version, try branch: fetchone() of
\* "select version from ch_migrations", "" when there is no row.
fetch_version(rs) == IF rs = <<>> THEN "" ELSE rs[1]

\* A slip in initialize_migration_context: the result is not tested for None.
after_read_unchecked(version) == "context"

\* initialize_migration_context: `if current_version is None` after the read.
after_read(version) == IF version = None THEN "abort" ELSE "context"

\* initialize_migration_context after get_current_db_migration_version
\* returned version (None when its except clause ran).
AfterRead(version) ==
    IF after_read(version) = "abort"
    THEN /\ pc' = "done"
         /\ report' = "init_failed"
         /\ UNCHANGED current_version
    ELSE /\ current_version' = version
         /\ pc' = "plan"
         /\ UNCHANGED report

\* initialize_migration_context: get_current_db_migration_version and the
\* None test after it.
get_current_db_migration_version ==
    /\ pc = "read_version"
    /\ \/ /\ faults < MaxFaults
          /\ faults' = faults + 1
          /\ pc' = "done"
          /\ report' = "init_failed"
          /\ UNCHANGED <<log, current_version>>
       \/ /\ faults < MaxFaults \/ ~table_exists
          /\ faults' = IF table_exists THEN faults + 1 ELSE faults
          /\ log' = Append(log, Event("select", "", 0, FALSE))
          /\ AfterRead(None)
       \/ /\ table_exists
          /\ log' = Append(log, Event("select", "", 0, TRUE))
          /\ AfterRead(fetch_version(rows))
          /\ UNCHANGED faults
    /\ UNCHANGED <<dir, op, revision, table_exists, rows, buildvars, runvars>>
    /\ UNCHANGED lookup

\* ------------------------------------------------------------------ commands
\* The part of a command between the context and the call of run_migration.
StartPlan(p) ==
    /\ CASE p.status = "run" /\ p.plan # <<>> ->
              /\ plan' = p.plan
              /\ pos' = 1
              /\ pc' = "connect"
              /\ UNCHANGED report
         [] p.status = "run" /\ p.plan = <<>> ->
              /\ pc' = "done"
              /\ report' = "no_migration"
              /\ UNCHANGED <<plan, pos>>
         [] OTHER ->
              /\ pc' = IF p.status \in {"exception", "fault"} THEN "crashed" ELSE "done"
              /\ report' = p.status
              /\ UNCHANGED <<plan, pos>>
    /\ UNCHANGED <<dir, op, revision, current_version, statements, si, halt,
                   buildvars, dbvars>>

upgrade ==
    /\ pc = "plan"
    /\ op = "upgrade"
    /\ StartPlan(upgrade_plan)
    /\ UNCHANGED lookup

downgrade ==
    /\ pc = "plan"
    /\ op = "downgrade"
    /\ StartPlan(downgrade_plan)
    /\ UNCHANGED lookup

\* `async with Connection(...) as conn` around run_migration: when it fails, the
\* command's except clause logs "Migration execution failed".
connect ==
    /\ pc = "connect"
    /\ \/ /\ faults < MaxFaults
          /\ faults' = faults + 1
          /\ pc' = "done"
          /\ report' = "failed"
       \/ /\ pc' = "run_node"
          /\ UNCHANGED <<faults, report>>
    /\ UNCHANGED <<dir, op, revision, current_version, table_exists, rows, log,
                   buildvars, runvars>>
    /\ UNCHANGED lookup

\* ------------------------------------------------------------------ executor
\* The first entry of the directory whose name prefix is the version
\* (its index in ds, offset by base; 0 when there is none).
RECURSIVE resolve_dir(_, _, _)
resolve_dir(ds, version, base) ==
    IF ds = <<>> THEN 0
    ELSE IF compare_migration_folder_name_with_version(version, Head(ds).name)
         THEN base + 1
         ELSE resolve_dir(Tail(ds), version, base + 1)

ScriptOf(d, mode) == IF mode = "upgrade" THEN d.upgrade ELSE d.downgrade

\* run_migration, one node, up to the call of execute_sql_statements:
\* "run" with the statements, or the error it logs before returning.
prepare_node(version, mode) ==
    LET k == resolve_dir(dir, version, 0) IN
    IF k = 0 THEN [status |-> "no_dir", statements |-> <<>>]
    ELSE IF ~ScriptOf(dir[k], mode).is_file
         THEN [status |-> "no_file", statements |-> <<>>]
    ELSE IF Strip(ScriptOf(dir[k], mode).text) = <<>>
         THEN [status |-> "empty", statements |-> <<>>]
    ELSE IF SplitStatements(Strip(ScriptOf(dir[k], mode).text)) = <<>>
         THEN [status |-> "no_statements", statements |-> <<>>]
    ELSE [status |-> "run",
          statements |-> SplitStatements(Strip(ScriptOf(dir[k], mode).text))]

\* The head of run_migration's for loop: the loop ends, or the next node's
\* script is read and split.
run_node ==
    /\ pc = "run_node"
    /\ IF pos > Len(plan)
       THEN /\ pc' = "returned"
            /\ UNCHANGED <<statements, si, halt>>
       ELSE LET p == prepare_node(nodes[plan[pos]].info.version, op) IN
            IF p.status = "run"
            THEN /\ statements' = p.statements
                 /\ si' = 0
                 /\ pc' = "exec"
                 /\ UNCHANGED halt
            ELSE /\ halt' = p.status
                 /\ pc' = "returned"
                 /\ UNCHANGED <<statements, si>>
    /\ UNCHANGED <<dir, op, revision, current_version, report, plan, pos,
                   buildvars, dbvars>>
    /\ UNCHANGED lookup

\* What execute_sql_statements does after statement i of n was executed:
\* the except clause returns False, the else clause returns True.
after_statement(i, n, ok) == IF ok THEN "return_true" ELSE "return_false"

\* One iteration of the loop of execute_sql_statements; when the loop runs out
\* of statements the function returns False.  `connection.cursor()` is outside
\* the try: when it fails the exception reaches the command's except clause,
\* which logs "Migration execution failed".
execute_sql_statements ==
    /\ pc = "exec"
    /\ \/ /\ si = 0
          /\ faults < MaxFaults
          /\ faults' = faults + 1
          /\ pc' = "done"
          /\ report' = "failed"
          /\ UNCHANGED <<si, log, halt>>
       \/ /\ UNCHANGED report
          /\ IF si >= Len(statements)
             THEN /\ pc' = "returned"
                  /\ UNCHANGED <<si, log, faults, halt>>
             ELSE \E ok \in BOOLEAN :
                  /\ ok => ~Rejected(statements[si + 1])
                  /\ ~ok => (Rejected(statements[si + 1]) \/ faults < MaxFaults)
                  /\ faults' = IF ~ok /\ ~Rejected(statements[si + 1])
                               THEN faults + 1 ELSE faults
                  /\ log' = Append(log,
                         Event("stmt", nodes[plan[pos]].info.version, si + 1, ok))
                  /\ si' = si + 1
                  /\ LET then == after_statement(si + 1, Len(statements), ok) IN
                     /\ pc' = CASE then = "return_true" -> "truncate"
                                [] then = "return_false" -> "returned"
                                [] OTHER -> "exec"
                     /\ halt' = IF then = "return_false" THEN "statement" ELSE halt
    /\ UNCHANGED <<dir, op, revision, current_version, table_exists, rows,
                   plan, pos, statements, buildvars>>
    /\ UNCHANGED lookup

\* A slip in the downgrade branch: the node's own version is recorded.
marker_value_own(k, mode) == nodes[k].info.version

\* The version run_migration hands to update_migration_version for node k.
marker_value(k, mode) ==
    IF mode = "upgrade" THEN nodes[k].info.version
    ELSE IF Falsy(nodes[k].info.previous_version) THEN ""
    ELSE nodes[k].info.previous_version

\* A slip: the result of update_migration_version is not tested.
after_update_unchecked(ok) == "next_node"

\* What run_migration does when update_migration_version returned ok.
after_update(ok) == IF ok THEN "next_node" ELSE "return"

\* run_migration's step after update_migration_version returned ok.
AfterUpdate(ok) ==
    /\ halt' = IF after_update(ok) = "return" THEN "marker" ELSE halt
    /\ pc' = IF after_update(ok) = "return" THEN "returned" ELSE "run_node"
    /\ pos' = IF after_update(ok) = "return" THEN pos ELSE pos + 1

\* A slip in update_migration_version: the table is not emptied first.
not_truncated(rs) == rs

\* The effect of "TRUNCATE TABLE ch_migrations" on the rows of the table.
truncated(rs) == <<>>

\* update_migration_version, first statement: TRUNCATE TABLE ch_migrations.
\* When it fails the function returns False and run_migration tests that.
update_truncate ==
    /\ pc = "truncate"
    /\ \/ /\ faults < MaxFaults
          /\ faults' = faults + 1
          /\ log' = Append(log, Event("truncate", "", 0, FALSE))
          /\ AfterUpdate(FALSE)
          /\ UNCHANGED rows
       \/ /\ rows' = truncated(rows)
          /\ log' = Append(log, Event("truncate", "", 0, TRUE))
          /\ pc' = "insert"
          /\ UNCHANGED <<faults, halt, pos>>
    /\ UNCHANGED <<dir, op, revision, current_version, report, table_exists,
                   plan, statements, si, buildvars>>
    /\ UNCHANGED lookup

\* update_migration_version, second statement: INSERT INTO ch_migrations, and
\* run_migration's test of the result.
update_insert ==
    /\ pc = "insert"
    /\ LET version == marker_value(plan[pos], op) IN
       \/ /\ faults < MaxFaults
          /\ faults' = faults + 1
          /\ log' = Append(log, Event("insert", version, 0, FALSE))
          /\ AfterUpdate(FALSE)
          /\ UNCHANGED rows
       \/ /\ rows' = Append(rows, version)
          /\ log' = Append(log, Event("insert", version, 0, TRUE))
          /\ AfterUpdate(TRUE)
          /\ UNCHANGED faults
    /\ UNCHANGED <<dir, op, revision, current_version, report, table_exists,
                   plan, statements, si, buildvars>>
    /\ UNCHANGED lookup

\* run_migration returned (it has no return value): the command logs
\* "Migration execution completed successfully".
run_returned ==
    /\ pc = "returned"
    /\ pc' = "done"
    /\ report' = "success"
    /\ UNCHANGED <<dir, op, revision, current_version, buildvars, dbvars, runvars>>
    /\ UNCHANGED lookup

\* ------------------------------------------------------------------ inputs
\* SQL files, as their characters: "s", "t", "u" are statements the database
\* accepts, "b" is one it rejects.
OneStatement == <<"s", ";">>
TwoStatements == <<"s", ";", " ", "t", ";", " ">>
ThreeStatements == <<" ", "s", ";", "t", ";", ";", "u">>
BadFirst == <<"b", ";", "s">>
BadSecond == <<"s", ";", "b", ";", "t">>
Blank == <<" ", " ">>
OnlySemicolons == <<" ", ";", " ", ";">>
ScriptTexts == {OneStatement, TwoStatements, ThreeStatements, BadFirst, BadSecond,
                Blank, OnlySemicolons}
DefaultTexts == {OneStatement, TwoStatements}

\* Unit i of a chain of n units VersionIds[1] -> ... -> VersionIds[n].
ChainUnit(i, n, up, down) ==
    Unit(VersionIds[i],
         IF i = 1 THEN None ELSE VersionIds[i - 1],
         IF i = n THEN None ELSE VersionIds[i + 1],
         up, down)

\* A directory holding that chain; unit j's script for the mode is text, every
\* other script is dflt.
ChainListing(n, dflt, j, mode, text) ==
    [i \in 1..n |->
        ChainUnit(i, n,
                  IF i = j /\ mode = "upgrade" THEN text ELSE dflt,
                  IF i = j /\ mode = "downgrade" THEN text ELSE dflt)]

Reverse(s) == [i \in 1..Len(s) |-> s[Len(s) + 1 - i]]

Orders(n) ==
    {f \in [1..n -> 1..n] : \A a, b \in 1..n : f[a] = f[b] => a = b}

Permuted(s, f) == [i \in 1..Len(s) |-> s[f[i]]]

\* The directories that differ from the listing l over the versions vs in one
\* respect: one metadata reference, one missing or malformed file, one name,
\* or one extra entry.
Variants(l, vs) ==
    LET I == 1..Len(l) IN
    {[l EXCEPT ![i].info_toml.next_version = x] :
        i \in I, x \in {None, "", Ghost} \cup vs}
    \cup {[l EXCEPT ![i].info_toml.previous_version = x] :
        i \in I, x \in {None, Ghost} \cup vs}
    \cup {[l EXCEPT ![i].info_toml.version = x] : i \in I, x \in vs}
    \cup {[l EXCEPT ![i].info_toml.state = x] : i \in I, x \in {"missing", "malformed"}}
    \cup {[l EXCEPT ![i].info_json = FALSE] : i \in I}
    \cup {[l EXCEPT ![i].upgrade = NoFile] : i \in I}
    \cup {[l EXCEPT ![i].downgrade = NoFile] : i \in I}
    \cup {[l EXCEPT ![i] = PlainFile(l[i].name)] : i \in I}
    \cup {[l EXCEPT ![i].name = Chars(x) \o <<"_", "m">>] : i \in I, x \in vs}
    \cup {[l EXCEPT ![i].name = Chars(x) \o Sep \o <<"r">>] : i \in I, x \in vs}
    \cup {<<PlainFile(Chars(x))>> \o l : x \in vs}
    \cup {<<[Unit(x, None, None, t, t) EXCEPT !.info_json = FALSE,
                                              !.name = Chars(x) \o Sep \o <<"x">>]>>
            \o l :
            x \in vs, t \in {Blank, OneStatement}}

\* A complete unit directory that no other unit refers to, with metadata in
\* the given state.
Stray(state) ==
    [Unit(Ghost, Ghost, None, OneStatement, OneStatement)
        EXCEPT !.info_toml.state = state]

\* The listing l with a stray unit enumerated first or last.
WithStray(l) ==
    {<<Stray(x)>> \o l : x \in {"ok", "malformed"}}
    \cup {l \o <<Stray(x)>> : x \in {"ok", "malformed"}}

\* The directories the chain builder is run on.
BuildListings ==
    UNION {
        LET l == ChainListing(n, OneStatement, 0, "upgrade", OneStatement) IN
        UNION {{Permuted(l, f)} \cup Variants(Permuted(l, f), Versions(n))
                 \cup WithStray(Permuted(l, f)) :
                 f \in Orders(n)} :
        n \in 0..MaxUnits}

\* The directories and commands an invocation is run on: an intact chain with
\* any script for the command's mode in one unit, or a variant of the chain.
Invocations ==
    UNION {
        LET revs == {IF o = "upgrade" THEN "head" ELSE "base", Ghost} \cup Versions(n)
            plain == ChainListing(n, TwoStatements, 0, o, TwoStatements)
            ls == {ChainListing(n, d, j, o, t) :
                       d \in DefaultTexts, j \in 1..n, t \in ScriptTexts}
                  \cup {Reverse(plain)}
                  \cup Variants(plain, Versions(n))
        IN  [dir : ls, op : {o}, revision : revs] :
        n \in 0..MaxUnits, o \in {"upgrade", "downgrade"}}

\* The marker table before an invocation: absent, empty, or one row.
Markers == {<<>>, <<Ghost>>} \cup {<<VersionIds[i]>> : i \in 1..MaxUnits}

InitCommon ==
    /\ bpc = "idle"
    /\ calls = 0
    /\ migration_dirs = <<>>
    /\ nodes = <<>>
    /\ head = 0
    /\ tail = 0
    /\ is_initialized = FALSE
    /\ errors = <<>>
    /\ warnings = <<>>
    /\ allocated = 0
    /\ current_version = ""
    /\ plan = <<>>
    /\ pos = 0
    /\ statements = <<>>
    /\ si = 0
    /\ halt = "none"
    /\ log = <<>>
    /\ faults = 0
    /\ report = "none"
    /\ lookup = NoLookup

\* A command invocation.
Init ==
    /\ \E inv \in Invocations :
         /\ dir = inv.dir
         /\ op = inv.op
         /\ revision = inv.revision
    /\ \/ table_exists = FALSE /\ rows = <<>>
       \/ table_exists = TRUE /\ rows \in Markers
    /\ pc = "build"
    /\ InitCommon

Next ==
    \/ build_list_enter
    \/ build_list_walk
    \/ create_migratino_table
    \/ get_current_db_migration_version
    \/ upgrade
    \/ downgrade
    \/ connect
    \/ run_node
    \/ execute_sql_statements
    \/ update_truncate
    \/ update_insert
    \/ run_returned

Spec == Init /\ [][Next]_vars

\* The chain builder used as a library, as the unit tests use it.
InitBuild ==
    /\ dir \in BuildListings
    /\ op = "none"
    /\ revision = ""
    /\ table_exists = FALSE
    /\ rows = <<>>
    /\ pc = "lib"
    /\ InitCommon

NextBuild ==
    \/ build_list_enter
    \/ build_list_walk

SpecBuild == InitBuild /\ [][NextBuild]_vars

\* The chain used as a library by a caller that also looks versions up.
NextFind ==
    \/ build_list_enter
    \/ build_list_walk
    \/ find_by_version_call
    \/ find_by_version_loop

SpecFind == InitBuild /\ [][NextFind]_vars

\* ------------------------------------------------------------------ properties
\* read(): what get_current_db_migration_version returns for the table now.
MarkerNow == IF rows = <<>> THEN "" ELSE rows[1]

Last(q) == q[Len(q)]

IsStmt(e) == e.kind = "stmt"
IsWrite(e) == e.kind \in {"truncate", "insert"}

\* The statements executed so far, as <<unit version, statement number>>.
Executed ==
    LET es == SelectSeq(log, IsStmt)
    IN  [i \in 1..Len(es) |-> <<es[i].version, es[i].idx>>]

\* No call on the database has failed.
NoFailure == faults = 0 /\ \A i \in 1..Len(log) : log[i].ok

\* The directory holds nothing but well-formed units, each named after the
\* version of its metadata, and the chain links them all without a break.
Intact ==
    /\ is_initialized
    /\ errors = <<>>
    /\ Len(nodes) = Len(dir)
    /\ \A i \in 1..Len(dir) :
         /\ is_valid_migration_directory(dir[i])
         /\ dir[i].info_toml.state = "ok"
         /\ dir[i].name = Chars(dir[i].info_toml.version) \o Sep \o <<"m">>
    /\ \A i, j \in 1..Len(dir) :
         dir[i].info_toml.version = dir[j].info_toml.version => i = j

\* The unit directory of a version (in an intact directory).
EntryOf(v) == CHOOSE i \in 1..Len(dir) : dir[i].info_toml.version = v

\* The statements of node k's script for the mode, read from its unit directory.
ScriptStatements(k, mode) ==
    SplitStatements(Strip(ScriptOf(dir[EntryOf(nodes[k].info.version)], mode).text))

\* Every statement of every script of the nodes ks, in order.
RECURSIVE WholeScripts(_, _)
WholeScripts(ks, mode) ==
    IF ks = <<>> THEN <<>>
    ELSE [i \in 1..Len(ScriptStatements(Head(ks), mode)) |->
              <<nodes[Head(ks)].info.version, i>>]
         \o WholeScripts(Tail(ks), mode)

\* Every unit has at least one statement in its script for the mode.
ScriptsPresent(mode) ==
    \A k \in 1..Len(nodes) : ScriptStatements(k, mode) # <<>>

\* C1: for an unbroken chain of N >= 1 units, an empty marker and no database
\* failure, `upgrade head` executes the whole upgrade script of every unit
\* head..tail once, in chain order, and ends with the marker at tail.version.
C1_UpgradeHeadAppliesEveryScript ==
    (/\ pc = "done"
     /\ op = "upgrade"
     /\ revision = "head"
     /\ Intact
     /\ Len(nodes) >= 1
     /\ ScriptsPresent("upgrade")
     /\ current_version = ""
     /\ NoFailure)
    => /\ Executed = WholeScripts(Forward(head), "upgrade")
       /\ MarkerNow = nodes[tail].info.version

\* C2: with the marker at tail.version of an unbroken chain and no database
\* failure, `downgrade base` executes the whole downgrade script of every unit
\* tail..head once, in reverse chain order, and ends with the marker empty.
C2_DowngradeBaseRevertsEveryScript ==
    (/\ pc = "done"
     /\ op = "downgrade"
     /\ revision = "base"
     /\ Intact
     /\ Len(nodes) >= 1
     /\ ScriptsPresent("downgrade")
     /\ current_version = nodes[tail].info.version
     /\ NoFailure)
    => /\ Executed = WholeScripts(Backward(tail), "downgrade")
       /\ MarkerNow = ""

\* C3: the marker of a unit is updated only after every statement of the
\* unit's script has been executed: when update_migration_version is entered,
\* all k statements are in the log, in source order.
C3_MarkerOnlyAfterAllStatements ==
    pc \in {"truncate", "insert"} =>
        /\ si = Len(statements)
        /\ Len(Executed) >= Len(statements)
        /\ \A i \in 1..Len(statements) :
             Executed[Len(Executed) - Len(statements) + i]
                 = <<nodes[plan[pos]].info.version, i>>

\* C4: if the database rejects any statement of a unit's script, whatever its
\* position, execute_sql_statements does not report success: the marker write
\* for that unit is never entered.
C4_RejectedStatementHalts ==
    pc \in {"truncate", "insert"} =>
        \A i \in 1..Len(statements) : ~Rejected(statements[i])

\* The last call on the database was a marker insert that succeeded; the node
\* it was made for is the one before the executor's position.
JustWritten == log # <<>> /\ Last(log).kind = "insert" /\ Last(log).ok

\* C5: after a unit's statements succeeded and its marker write succeeded, the
\* marker is the node's version (upgrade) or the node's previous_version, the
\* empty string when that is null (downgrade).
C5_MarkerAfterUnit ==
    JustWritten =>
        LET info == nodes[plan[pos - 1]].info IN
        /\ op = "upgrade" => MarkerNow = info.version
        /\ op = "downgrade" =>
             MarkerNow = (IF info.previous_version = None THEN ""
                          ELSE info.previous_version)

\* C5 witness: a downgrade has executed a one-statement script in full and
\* written the version of the node's predecessor.
C5_Witness ==
    /\ JustWritten
    /\ op = "downgrade"
    /\ Len(statements) = 1
    /\ si = 1
    /\ nodes[plan[pos - 1]].info.previous_version \in Versions(MaxUnits)
    /\ MarkerNow = nodes[plan[pos - 1]].info.previous_version

\* C6: a failed marker write (at TRUNCATE or at INSERT) is the last call the run
\* makes on the database: no statement of a later node, no further marker write.
C6_HaltAfterFailedMarkerWrite ==
    \A i \in 1..Len(log) : (IsWrite(log[i]) /\ ~log[i].ok) => i = Len(log)

\* C6 witness: the command has ended after a failed marker write with nodes of
\* the plan still to come.
C6_Witness ==
    /\ pc = "done"
    /\ halt = "marker"
    /\ pos < Len(plan)
    /\ IsWrite(Last(log))
    /\ ~Last(log).ok

\* The value the marker held before the write in progress: the last value
\* inserted in this run, or the value read at the start.
RECURSIVE LastInserted(_)
LastInserted(q) ==
    IF q = <<>> THEN current_version
    ELSE IF Last(q).kind = "insert" /\ Last(q).ok THEN Last(q).version
    ELSE LastInserted(SubSeq(q, 1, Len(q) - 1))

\* C7: after a failed marker write, at TRUNCATE or at INSERT, a read returns
\* the value the marker held before that write.
C7_FailedWriteLeavesMarker ==
    (log # <<>> /\ IsWrite(Last(log)) /\ ~Last(log).ok)
        => MarkerNow = LastInserted(log)

\* C8: the command reports successful completion only if run_migration went
\* through the whole plan without halting.
C8_SuccessOnlyIfPlanCompleted ==
    report = "success" => (halt = "none" /\ pos > Len(plan))

\* ------------------------------------------------------------------ chain properties
\* build_list has been called and has returned or raised.
BuildEnded == calls >= 1 /\ bpc # "walk"

\* The valid units: the entries that pass the validity check.
ValidUnits == FilterValid(dir)

\* Every valid unit has readable metadata, is named "<version>--..." after the
\* version of its metadata, and no two valid units share a version.
UnitsWellFormed ==
    /\ \A i \in 1..Len(ValidUnits) :
         /\ ValidUnits[i].info_toml.state = "ok"
         /\ Split(ValidUnits[i].name, Sep)[1] = Chars(ValidUnits[i].info_toml.version)
    /\ \A i, j \in 1..Len(ValidUnits) :
         ValidUnits[i].info_toml.version = ValidUnits[j].info_toml.version => i = j

HeadUnits == {i \in 1..Len(ValidUnits) : Falsy(ValidUnits[i].info_toml.previous_version)}

UnitExists(v) == \E i \in 1..Len(ValidUnits) : ValidUnits[i].info_toml.version = v

UnitInfo(v) ==
    ValidUnits[CHOOSE i \in 1..Len(ValidUnits) : ValidUnits[i].info_toml.version = v]
        .info_toml

\* The metadata of the units from version v on, following next_version by
\* version for as long as it resolves (at most fuel units).
RECURSIVE ChainFrom(_, _)
ChainFrom(v, fuel) ==
    IF fuel = 0 \/ ~UnitExists(v) THEN <<>>
    ELSE IF Falsy(UnitInfo(v).next_version) THEN <<UnitInfo(v)>>
    ELSE <<UnitInfo(v)>> \o ChainFrom(UnitInfo(v).next_version, fuel - 1)

\* The forward chain of the (unique) null-previous unit.
UnitChain ==
    ChainFrom(ValidUnits[CHOOSE i \in HeadUnits : TRUE].info_toml.version,
              Len(ValidUnits))

\* The chain ends at a unit without next_version: it is unbroken.
Unbroken ==
    /\ UnitChain # <<>>
    /\ Falsy(Last(UnitChain).next_version)

\* The chain ends at a unit whose next_version names no valid unit.
Dangling ==
    /\ UnitChain # <<>>
    /\ ~Falsy(Last(UnitChain).next_version)
    /\ ~UnitExists(Last(UnitChain).next_version)

\* The metadata of the nodes from node k on, following next.
NodeInfos(k) == [i \in 1..Len(Forward(k)) |-> nodes[Forward(k)[i]].info]

\* node.previous followed n times from node k.
RECURSIVE PreviousTimes(_, _)
PreviousTimes(k, n) ==
    IF n = 0 \/ k = 0 THEN k ELSE PreviousTimes(PreviousOf(k), n - 1)

\* C9: for valid units with a unique null-previous unit and an unbroken forward
\* chain of length N, build yields head -> ... -> tail with exactly the N units
\* in next_version order, and N-1 previous steps from tail reach head.
C9_BuildYieldsWholeChain ==
    (BuildEnded /\ UnitsWellFormed /\ Cardinality(HeadUnits) = 1 /\ Unbroken)
    => /\ bpc = "idle"
       /\ is_initialized
       /\ head # 0
       /\ tail # 0
       /\ NodeInfos(head) = UnitChain
       /\ Last(Forward(head)) = tail
       /\ PreviousTimes(tail, Len(UnitChain) - 1) = head
       /\ PreviousOf(head) = 0

\* C9 witness: a chain of MaxUnits units has been built from a directory that
\* does not list the units in chain order.
C9_Witness ==
    /\ BuildEnded /\ UnitsWellFormed /\ Cardinality(HeadUnits) = 1 /\ Unbroken
    /\ Len(UnitChain) = MaxUnits
    /\ tail = MaxUnits
    /\ dir[1].info_toml.next_version = None

\* C10: when a reached unit's next_version names no valid unit, build does not
\* raise; the chain holds every unit from head up to that unit, which is tail,
\* and exactly one broken-link error is reported, naming the missing version.
C10_DanglingLinkShortensChain ==
    (BuildEnded /\ UnitsWellFormed /\ Cardinality(HeadUnits) = 1 /\ Dangling)
    => /\ bpc = "idle"
       /\ is_initialized
       /\ head # 0
       /\ NodeInfos(head) = UnitChain
       /\ Last(Forward(head)) = tail
       /\ errors = <<Last(UnitChain).next_version>>

\* C10 witness: a chain of two or more nodes was cut at a dangling reference.
C10_Witness ==
    /\ BuildEnded /\ UnitsWellFormed /\ Cardinality(HeadUnits) = 1 /\ Dangling
    /\ tail >= 2
    /\ Len(ValidUnits) > tail
    /\ errors = <<Ghost>>

\* ------------------------------------------------------------------ broken chains
\* C11: if chain assembly reported a broken link, the command is aborted before
\* it touches the database: no migration statement is executed and no marker
\* write is made in that invocation.
C11_BrokenLinkAbortsBeforeDatabase ==
    errors # <<>> => \A i \in 1..Len(log) : ~IsStmt(log[i]) /\ ~IsWrite(log[i])

\* build_list has returned to its caller (it did not raise).
BuildReturned == BuildEnded /\ bpc = "idle"

\* C12: whenever build returns a (non-empty) chain with fewer nodes than there
\* are valid units, it has reported the chain as broken.
C12_ShortfallIsReported ==
    (BuildReturned /\ head # 0 /\ Len(Forward(head)) < Len(ValidUnits))
        => errors # <<>>

\* The ordered version sequence of the chain.
ChainVersions == [i \in 1..Len(Forward(head)) |-> nodes[Forward(head)[i]].info.version]

\* C13: a call of build on a chain object whose earlier call returned, over the
\* unchanged directory, returns at once with the same ordered version sequence
\* and the same head object: no node is constructed and no link, head or tail
\* is changed.
C13_SecondBuildChangesNothing ==
    [][(calls >= 1 /\ bpc = "idle" /\ calls' = calls + 1)
         => /\ bpc' = "idle"
            /\ ChainVersions' = ChainVersions
            /\ head' = head
            /\ allocated' = allocated
            /\ nodes' = nodes
            /\ tail' = tail
            /\ is_initialized' = is_initialized]_vars

\* C13 witness: build has returned twice on a chain of two or more nodes.
C13_Witness ==
    /\ calls = 2
    /\ bpc = "idle"
    /\ is_initialized
    /\ Len(ChainVersions) >= 2
    /\ allocated = Len(nodes)

\* C14: after a build that returned a non-empty chain, head.previous is null,
\* tail.next is null, tail is reached from head by following next, and
\* n.next.previous is n for every node n that has a successor.
C14_ChainLinksConsistent ==
    (BuildReturned /\ head # 0)
    => /\ PreviousOf(head) = 0
       /\ tail # 0
       /\ NextOf(tail) = 0
       /\ \E i \in 1..Len(Forward(head)) : Forward(head)[i] = tail
       /\ \A k \in 1..Len(nodes) : NextOf(k) # 0 => PreviousOf(NextOf(k)) = k

\* C14 witness: a chain of MaxUnits nodes has been built.
C14_Witness ==
    /\ BuildReturned
    /\ head # 0
    /\ Len(Forward(head)) = MaxUnits
    /\ tail = MaxUnits

\* Every valid unit has metadata the builder can read.
UnitsReadable == \A i \in 1..Len(ValidUnits) : ValidUnits[i].info_toml.state = "ok"

\* C15: when no valid unit has a null previous_version (the empty directory
\* included), build returns the empty chain without raising and logs a warning
\* about the empty chain.
C15_EmptyChainIsWarned ==
    (BuildEnded /\ UnitsReadable /\ HeadUnits = {})
    => /\ bpc = "idle"
       /\ head = 0
       /\ tail = 0
       /\ \E i \in 1..Len(warnings) : warnings[i].warning = "empty_chain"

\* ------------------------------------------------------------------ plans
\* The command has passed its planning step (the context was returned and
\* the revision was resolved, or resolving it raised).
Planned ==
    /\ pc \notin {"build", "lib", "create_table", "read_version", "plan"}
    /\ report # "init_failed"
    /\ bpc # "raised"

\* The chain nodes whose version is v; nodes are numbered in chain order.
NodesWith(v) == {k \in 1..Len(nodes) : nodes[k].info.version = v}

\* The first chain node with version v (0 when there is none).
FirstWith(v) ==
    IF NodesWith(v) = {} THEN 0
    ELSE CHOOSE k \in NodesWith(v) : \A j \in NodesWith(v) : k <= j

\* The nodes a..b in chain order, and in reverse chain order.
Ascending(a, b) == [i \in 1..(b - a + 1) |-> a + i - 1]
Descending(b, a) == [i \in 1..(b - a + 1) |-> b + 1 - i]

\* No statement was executed and no marker write was made.
Untouched == \A i \in 1..Len(log) : ~IsStmt(log[i]) /\ ~IsWrite(log[i])

\* C16: for `upgrade head` with the marker different from tail.version, the
\* plan is the nodes strictly after the current node (from head when the marker
\* is empty) through tail, in chain order, each once.
C16_UpgradeHeadPlan ==
    (/\ Planned
     /\ op = "upgrade"
     /\ revision = "head"
     /\ tail # 0
     /\ nodes[tail].info.version # current_version
     /\ (current_version = "" \/ FirstWith(current_version) # 0))
    => /\ pc # "crashed"
       /\ plan = Ascending(FirstWith(current_version) + 1, tail)

\* C16 witness: from a marker inside the chain, two nodes were planned.
C16_Witness ==
    /\ pc = "connect"
    /\ op = "upgrade"
    /\ revision = "head"
    /\ FirstWith(current_version) = 1
    /\ plan = <<2, 3>>
    /\ tail = 3

\* C17: when the marker equals tail.version, `upgrade head` plans nothing: the
\* command ends without a statement, without a marker write, and the marker
\* is what it was.
C17_UpgradeHeadAtTailIsNoop ==
    (/\ Planned
     /\ op = "upgrade"
     /\ revision = "head"
     /\ tail # 0
     /\ nodes[tail].info.version = current_version)
    => /\ pc = "done"
       /\ plan = <<>>
       /\ Untouched
       /\ MarkerNow = current_version

\* C17 witness: `upgrade head` ended at the tail of a chain of several nodes.
C17_Witness ==
    /\ pc = "done"
    /\ report = "already"
    /\ op = "upgrade"
    /\ revision = "head"
    /\ tail >= 2
    /\ nodes[tail].info.version = current_version
    /\ MarkerNow = current_version

\* The run went through its whole plan and nothing failed on the way.
FailureFree == pc = "done" /\ report = "success" /\ halt = "none" /\ NoFailure

\* C18: for `upgrade <V>` with V the version of a chain node, the plan is empty
\* when V equals the marker and is the single node V otherwise, wherever V
\* lies relative to the current node; after a failure-free run the marker is V.
C18_UpgradeToVersionPlan ==
    (/\ Planned
     /\ op = "upgrade"
     /\ revision # "head"
     /\ FirstWith(revision) # 0)
    => /\ pc # "crashed"
       /\ revision = current_version => (plan = <<>> /\ Untouched)
       /\ revision # current_version => plan = <<FirstWith(revision)>>
       /\ FailureFree => MarkerNow = revision

\* C18 witness: an upgrade from the first node to the third, skipping the
\* second, ran without failure.
C18_Witness ==
    /\ FailureFree
    /\ op = "upgrade"
    /\ revision # "head"
    /\ FirstWith(current_version) = 1
    /\ plan = <<3>>
    /\ FirstWith(revision) = 3
    /\ MarkerNow = revision

\* C19: `upgrade <V>` with V the version of no chain node ends with the
\* "target not found" error, and no call was made on the database in the
\* invocation.
C19_UnknownTargetNoDatabaseCall ==
    (/\ Planned
     /\ op = "upgrade"
     /\ revision # "head"
     /\ FirstWith(revision) = 0)
    => /\ pc = "crashed"
       /\ report = "exception"
       /\ log = <<>>

\* C20: for `downgrade base` with the marker at the k-th node of the chain, the
\* plan is the k-th node, then every predecessor down to head, and no node
\* after the k-th.
C20_DowngradeBasePlan ==
    (/\ Planned
     /\ op = "downgrade"
     /\ revision = "base"
     /\ current_version # ""
     /\ FirstWith(current_version) # 0)
    => /\ pc # "crashed"
       /\ plan = Descending(FirstWith(current_version), 1)

\* C20 witness: a downgrade to base was planned from the middle of the chain.
C20_Witness ==
    /\ pc = "connect"
    /\ op = "downgrade"
    /\ revision = "base"
    /\ FirstWith(current_version) = 2
    /\ tail = 3
    /\ plan = <<2, 1>>

\* ------------------------------------------------------------------ downgrade plans
\* The chain nodes with version v that lie strictly before node c.
NodesBefore(v, c) == {k \in NodesWith(v) : k < c}

\* The nearest of them to c.
NearestBefore(v, c) ==
    CHOOSE k \in NodesBefore(v, c) : \A j \in NodesBefore(v, c) : j <= k

\* C21: for `downgrade <T>` with T a chain node strictly before the current
\* node, the plan is the current node, then its predecessors down to the
\* successor of T, in reverse chain order; T itself is not in the plan.
C21_DowngradeToVersionPlan ==
    (/\ Planned
     /\ op = "downgrade"
     /\ revision # "base"
     /\ current_version # ""
     /\ revision # current_version
     /\ FirstWith(current_version) # 0
     /\ NodesBefore(revision, FirstWith(current_version)) # {})
    => /\ pc # "crashed"
       /\ report # "error"
       /\ plan = Descending(FirstWith(current_version),
                            NearestBefore(revision, FirstWith(current_version)) + 1)

\* C21 witness: a downgrade from the third node to the first was planned.
C21_Witness ==
    /\ pc = "connect"
    /\ op = "downgrade"
    /\ FirstWith(current_version) = 3
    /\ FirstWith(revision) = 1
    /\ NodesWith(revision) = {1}
    /\ plan = <<3, 2>>

\* C22: `downgrade` changes nothing when the target equals the marker, and
\* when the target is "base" and the marker is empty: no statement is executed,
\* no marker write is made and the marker is what it was.
C22_DowngradeToCurrentIsNoop ==
    (/\ Planned
     /\ op = "downgrade"
     /\ (revision = current_version \/ (revision = "base" /\ current_version = "")))
    => /\ pc = "done"
       /\ plan = <<>>
       /\ Untouched
       /\ MarkerNow = current_version

\* C22 witness: `downgrade <V>` ended with the marker at V, a node that has
\* predecessors.
C22_Witness ==
    /\ pc = "done"
    /\ report = "already"
    /\ op = "downgrade"
    /\ revision = current_version
    /\ FirstWith(current_version) >= 2
    /\ MarkerNow = current_version

\* ------------------------------------------------------------------ planning errors
\* The non-empty marker names no chain node (upgrade head or any downgrade).
MarkerNotInChain ==
    /\ current_version # ""
    /\ FirstWith(current_version) = 0
    /\ (op = "downgrade" \/ revision = "head")

\* The downgrade target names no chain node.
DowngradeTargetNotInChain ==
    /\ op = "downgrade"
    /\ revision # "base"
    /\ FirstWith(revision) = 0

\* The downgrade target is a chain node, but not one that following previous
\* from the current node reaches.
DowngradeTargetUnreachable ==
    /\ op = "downgrade"
    /\ revision # "base"
    /\ FirstWith(revision) # 0
    /\ FirstWith(current_version) # 0
    /\ revision # current_version
    /\ NodesBefore(revision, FirstWith(current_version)) = {}

\* The command told the operator of an error of its own finding.
ErrorReported == report \in {"error", "exception"}

\* C23: when the non-empty marker names no chain node, or a downgrade target
\* names no chain node, or a downgrade target is not reachable from the
\* current node, the command reports an error, executes no migration statement
\* and leaves the marker unchanged.
C23_PlanningErrorsAbort ==
    (Planned /\ (MarkerNotInChain \/ DowngradeTargetNotInChain
                    \/ DowngradeTargetUnreachable))
    => /\ ErrorReported
       /\ Untouched
       /\ MarkerNow = current_version

\* ------------------------------------------------------------------ marker reads
\* The marker read was issued and the database failed it.
ReadFailed == \E i \in 1..Len(log) : log[i].kind = "select" /\ ~log[i].ok

\* C24: a read returns "" when the marker table has no row and the stored value
\* otherwise; a failed read is reported as a failure, not as the empty marker,
\* and the command then ends without a plan, a statement or a marker write.
C24_ReadReturnsMarkerOrFails ==
    /\ pc = "plan" =>
         /\ ~ReadFailed
         /\ rows = <<>> => current_version = ""
         /\ rows # <<>> => current_version = rows[1]
    /\ ReadFailed =>
         /\ pc = "done"
         /\ report = "init_failed"
         /\ plan = <<>>
         /\ Untouched
         /\ Last(log).kind = "select"

\* C24 witness: the read failed on a table that holds a marker, and the
\* command ended there.
C24_Witness ==
    /\ ReadFailed
    /\ table_exists
    /\ rows # <<>>
    /\ rows[1] # ""
    /\ pc = "done"
    /\ report = "init_failed"

\* The schema-ensure statement was issued and the database failed it.
CreateFailed == \E i \in 1..Len(log) : log[i].kind = "create" /\ ~log[i].ok

\* C25: when schema-ensure fails the command aborts at once: the marker is not
\* read afterwards, no plan is computed, no statement is executed and no
\* marker write is made.
C25_SchemaEnsureFailureAborts ==
    CreateFailed =>
        /\ \A i \in 1..Len(log) : log[i].kind # "select"
        /\ plan = <<>>
        /\ Untouched

\* ------------------------------------------------------------------ unusable scripts
\* The directory entries whose name prefix is the version v.
EntriesFor(v) ==
    {i \in 1..Len(dir) : compare_migration_folder_name_with_version(v, dir[i].name)}

\* The first of them in enumeration order: the one run_migration takes.
FirstEntryFor(v) == CHOOSE i \in EntriesFor(v) : \A j \in EntriesFor(v) : i <= j

\* The script file f is missing, or holds nothing but white space and ';'.
Unusable(f) ==
    \/ ~f.is_file
    \/ \A j \in 1..Len(f.text) : f.text[j] \in {" ", ";"}

\* The executor stands at a plan node whose script for the mode is unusable.
AtUnusableScript ==
    /\ pos \in 1..Len(plan)
    /\ EntriesFor(nodes[plan[pos]].info.version) # {}
    /\ Unusable(ScriptOf(dir[FirstEntryFor(nodes[plan[pos]].info.version)], op))

\* The successful marker inserts of the run.
InsertsDone == SelectSeq(log, LAMBDA e : e.kind = "insert" /\ e.ok)

\* C26: at a plan node whose script is missing, empty after trimming, or
\* without a statement after splitting on ';', the run halts: no statement of
\* that node or of a later node is executed, and the marker keeps the value
\* left by the last earlier node.
C26_UnusableScriptHalts ==
    AtUnusableScript =>
        /\ pc \in {"connect", "run_node", "returned", "done"}
        /\ log # <<>>
        /\ Last(log).kind \in {"select", "insert"}
        /\ Last(log).ok
        /\ Len(InsertsDone) = pos - 1
        /\ MarkerNow = LastInserted(log)

\* C26 witness: the run halted at the second of three plan nodes, after the
\* first node's marker write.
C26_Witness ==
    /\ AtUnusableScript
    /\ pc = "done"
    /\ halt \in {"no_file", "empty", "no_statements"}
    /\ pos = 2
    /\ Len(plan) = 3
    /\ Last(log).kind = "insert"
    /\ MarkerNow = marker_value(plan[1], op)

\* ------------------------------------------------------------------ marker writes
\* The statements of the script the executor reads for version v.
ResolvedStatements(v, mode) ==
    SplitStatements(Strip(ScriptOf(dir[FirstEntryFor(v)], mode).text))

\* C27: the marker is written only by the executor, once per unit whose
\* statements fully succeeded: no write is made before the plan is run, every
\* write directly follows the successful last statement of a unit's script,
\* and a unit that halted before or during its statements causes no write.
C27_MarkerWrittenOncePerAppliedUnit ==
    /\ pc \in {"build", "create_table", "read_version", "plan", "connect"} => Untouched
    /\ \A i \in 1..Len(log) :
         log[i].kind = "truncate" =>
            /\ i > 1
            /\ IsStmt(log[i - 1])
            /\ log[i - 1].ok
            /\ log[i - 1].idx = Len(ResolvedStatements(log[i - 1].version, op))
    /\ \A i \in 1..Len(log) :
         log[i].kind = "insert" =>
            /\ i > 1
            /\ log[i - 1].kind = "truncate"
            /\ log[i - 1].ok
    /\ halt \in {"no_dir", "no_file", "empty", "no_statements", "statement"} =>
         /\ Len(SelectSeq(log, IsWrite)) = 2 * (pos - 1)
         /\ Len(InsertsDone) = pos - 1

\* C28: the marker table never holds more than one row, and after a
\* successful write it holds exactly one row, the value written (the empty
\* string included), which is what a read returns.
C28_SingleRowAfterWrite ==
    /\ Len(rows) <= 1
    /\ JustWritten =>
         /\ rows = <<Last(log).version>>
         /\ fetch_version(rows) = Last(log).version

\* C28 witness: the second successful write of a run wrote the empty string
\* over the first write's value.
C28_Witness ==
    /\ JustWritten
    /\ Len(InsertsDone) = 2
    /\ InsertsDone[1].version # ""
    /\ rows = <<"">>

\* ------------------------------------------------------------------ validity
\* The four conditions of a valid unit, on a directory entry e: a directory,
\* the separator '--' in its name, the metadata file, both scripts.
HasSeparator(nm) == \E i \in 1..(Len(nm) - 1) : nm[i] = "-" /\ nm[i + 1] = "-"

MeetsConditions(e) ==
    /\ e.is_dir
    /\ HasSeparator(e.name)
    /\ e.info_json
    /\ e.upgrade.is_file
    /\ e.downgrade.is_file

UnitEntries == SelectSeq(dir, MeetsConditions)
ExcludedEntries == SelectSeq(dir, LAMBDA e : ~MeetsConditions(e))

\* The walk of build_list over the listing ds alone, from the chain infos so
\* far: the metadata of the chain it yields, or that it raises.
RECURSIVE WalkOver(_, _, _)
WalkOver(ds, infos, fuel) ==
    LET nxt == find_next(ds, Last(infos).next_version) IN
    IF Falsy(Last(infos).next_version) \/ nxt.status = "none"
    THEN [status |-> "returned", infos |-> infos]
    ELSE IF nxt.status = "raised" THEN [status |-> "raised", infos |-> infos]
    ELSE IF fuel = 0 THEN [status |-> "running", infos |-> infos]
    ELSE WalkOver(ds, Append(infos, nxt.info), fuel - 1)

\* build_list over a directory that holds the entries ds and nothing else.
BuildOver(ds) ==
    LET first == find_first_migration(ds) IN
    IF first.status = "none" THEN [status |-> "returned", infos |-> <<>>]
    ELSE IF first.status = "raised" THEN [status |-> "raised", infos |-> <<>>]
    ELSE WalkOver(ds, <<first.info>>, MaxChain - 1)

\* C30: an entry that fails the validity check never makes build fail and never
\* becomes a chain node: build raises or returns as it would over the valid
\* entries alone, with the same chain, and it logs a warning for each
\* excluded entry.
C30_InvalidEntriesExcludedAndWarned ==
    BuildEnded =>
        /\ (bpc = "raised") <=> (BuildOver(UnitEntries).status = "raised")
        /\ bpc = "idle" => NodeInfos(head) = BuildOver(UnitEntries).infos
        /\ \A k \in 1..Len(nodes) :
             \E i \in 1..Len(UnitEntries) : UnitEntries[i].info_toml = nodes[k].info
        /\ Len(warnings) >= Len(ExcludedEntries)
        /\ \A i \in 1..Len(ExcludedEntries) : warnings[i].dir = ExcludedEntries[i].name

\* C30 witness: a chain of several nodes was built from a directory that also
\* holds an entry the validity check rejected.
C30_Witness ==
    /\ BuildReturned
    /\ tail >= 2
    /\ Len(ExcludedEntries) >= 1
    /\ Len(UnitEntries) = tail
    /\ warnings # <<>>
    /\ warnings[1].dir = ExcludedEntries[1].name

\* ------------------------------------------------------------------ malformed metadata
\* Some directory that passes the validity check has a malformed info.toml.
MalformedUnit ==
    \E i \in 1..Len(ValidUnits) : ValidUnits[i].info_toml.state = "malformed"

\* C31: if any directory that passes the validity check has a malformed
\* metadata file, build fails with the parse error (it neither swallows the
\* error nor returns a chain), whatever the enumeration order.
C31_MalformedMetadataFailsBuild ==
    (BuildEnded /\ MalformedUnit) => bpc = "raised"

\* ------------------------------------------------------------------ name comparison
\* The position of the first "--" in a name (Len + 1 when there is none), and
\* the part of the name before it.
FirstSeparator(nm) ==
    LET at == {i \in 1..(Len(nm) - 1) : nm[i] = "-" /\ nm[i + 1] = "-"} IN
    IF at = {} THEN Len(nm) + 1 ELSE CHOOSE i \in at : \A j \in at : i <= j

PrefixOf(nm) == [i \in 1..(FirstSeparator(nm) - 1) |-> nm[i]]

\* C32: compare_migration_folder_name_with_version(V, D) is true exactly when
\* the part of D before its first "--" is V, character for character; a name
\* whose "--" follows another prefix does not match, nor does a name without
\* "--" that differs from V.
C32_NameMatchesIffPrefixEqualsVersion ==
    \A i \in 1..Len(dir) : \A v \in ComparedVersions :
        /\ compare_migration_folder_name_with_version(v, dir[i].name)
              <=> PrefixOf(dir[i].name) = Chars(v)
        /\ (~HasSeparator(dir[i].name) /\ dir[i].name # Chars(v))
              => ~compare_migration_folder_name_with_version(v, dir[i].name)

\* C32 witness: the walk of build_list has found a unit by its name in a
\* directory that also holds a name without "--" starting with a version.
C32_Witness ==
    /\ BuildReturned
    /\ tail >= 2
    /\ \E i \in 1..Len(dir) :
         /\ ~HasSeparator(dir[i].name)
         /\ Len(dir[i].name) > 1
         /\ dir[i].name[1] = nodes[1].info.version
         /\ ~compare_migration_folder_name_with_version(nodes[1].info.version,
                                                        dir[i].name)
    /\ \E i \in 1..Len(dir) :
         compare_migration_folder_name_with_version(nodes[2].info.version, dir[i].name)

\* ------------------------------------------------------------------ lookup
\* The nodes reachable from head by following next whose version is v.
ReachableWith(v) ==
    {Forward(head)[i] : i \in {j \in 1..Len(Forward(head)) :
                                  nodes[Forward(head)[j]].info.version = v}}

\* C33: find_by_version(v) returns a chain node whose version is v exactly when
\* such a node is reachable from head by following next, and null otherwise
\* (always null on an empty chain); called on a chain that is not yet built,
\* it builds the chain first and answers over the chain just built.
C33_FindByVersion ==
    /\ lookup.state = "returned" =>
         /\ lookup.node # 0 <=> ReachableWith(lookup.version) # {}
         /\ lookup.node # 0 => lookup.node \in ReachableWith(lookup.version)
         /\ head = 0 => lookup.node = 0
         /\ BuildReturned
         /\ migration_dirs = ValidUnits
         /\ NodeInfos(head) = BuildOver(ValidUnits).infos
    /\ lookup.state = "building" => calls >= 1

\* C33 witness: find_by_version was called on a chain that had not been built,
\* built it, and returned its tail, which is not its head.
C33_Witness ==
    /\ lookup.state = "returned"
    /\ calls = 1
    /\ is_initialized
    /\ lookup.node = tail
    /\ tail >= 2
    /\ nodes[tail].info.version = lookup.version

\* ------------------------------------------------------------------ cycles
\* C34: build terminates for every finite set of valid units, cyclic
\* next_version references included, and the chain it yields never has more
\* nodes than there are valid units: no walk constructs more nodes than there
\* are valid units.
C34_ChainNoLongerThanUnits ==
    Len(nodes) <= Len(ValidUnits)

\* ------------------------------------------------------------------ applied units
\* The versions of the units whose upgrade script was run in this invocation.
AppliedUnits == {Executed[i][1] : i \in 1..Len(Executed)}

\* The versions of the chain nodes from head through the node named by the
\* marker (none when the marker is empty).
PrefixThroughMarker ==
    IF MarkerNow = "" THEN {}
    ELSE {nodes[k].info.version : k \in 1..FirstWith(MarkerNow)}

\* C35: in a run without failure over an unbroken chain, starting from an empty
\* marker, the units whose upgrade has been applied and not reverted are
\* exactly the chain prefix from head through the node named by the marker;
\* here after the first upgrade command of such a sequence.
C35_AppliedUnitsArePrefixThroughMarker ==
    (FailureFree /\ Intact /\ op = "upgrade" /\ current_version = "")
    => AppliedUnits = PrefixThroughMarker

\* ------------------------------------------------------------------ downgrade marker
\* The version of node k's chain predecessor (the empty string for head).
PredecessorVersion(k) ==
    IF PreviousOf(k) = 0 THEN "" ELSE nodes[PreviousOf(k)].info.version

\* C36: for every node n of a built chain, a successful downgrade of n sets the
\* marker to the version of n's chain predecessor n.previous (the empty string
\* when n is head), whatever metadata the builder accepted; a failure-free
\* downgrade to a reachable target ends with the marker equal to the target,
\* and the marker it leaves is empty or the version of a chain node.
C36_DowngradeWritesPredecessor ==
    /\ (JustWritten /\ op = "downgrade")
       => /\ MarkerNow = PredecessorVersion(plan[pos - 1])
          /\ MarkerNow = "" \/ FirstWith(MarkerNow) # 0
    /\ (/\ FailureFree
        /\ op = "downgrade"
        /\ revision # "base"
        /\ plan # <<>>
        /\ FirstWith(revision) # 0)
       => MarkerNow = revision

\* ------------------------------------------------------------------ metadata file
\* The entry is a directory with a "--" name that holds info.toml, upgrade.sql
\* and downgrade.sql.
HoldsMetadataAndScripts(e) ==
    /\ e.is_dir
    /\ HasSeparator(e.name)
    /\ e.info_toml.state # "missing"
    /\ e.upgrade.is_file
    /\ e.downgrade.is_file

\* C37: the metadata file the validity check requires is the one the chain
\* builder parses: a directory with a "--" name holding info.toml, upgrade.sql
\* and downgrade.sql is accepted, and build never fails with a missing
\* metadata file on a directory the validity check accepted.
C37_ValidityChecksParsedMetadataFile ==
    /\ \A i \in 1..Len(dir) :
         HoldsMetadataAndScripts(dir[i]) => is_valid_migration_directory(dir[i])
    /\ (BuildEnded /\ bpc = "raised")
       => \A i \in 1..Len(ValidUnits) : ValidUnits[i].info_toml.state # "missing"

\* ------------------------------------------------------------------ empty chain
\* C38: on an empty chain (head = tail = null) `upgrade head` yields an empty
\* plan and ends without an unhandled fault: no statement is executed and the
\* marker stays what it was, whatever its value.
C38_UpgradeHeadOnEmptyChain ==
    (/\ Planned
     /\ op = "upgrade"
     /\ revision = "head"
     /\ head = 0
     /\ tail = 0)
    => /\ pc # "crashed"
       /\ report # "fault"
       /\ plan = <<>>
       /\ Untouched
       /\ MarkerNow = current_version

\* ------------------------------------------------------------------ enumeration order
\* Exactly one valid unit has a null previous_version, no two valid units share
\* a name prefix, and every valid unit's metadata parses.
OrderPreconditions ==
    /\ Cardinality(HeadUnits) = 1
    /\ \A i, j \in 1..Len(ValidUnits) :
         PrefixOf(ValidUnits[i].name) = PrefixOf(ValidUnits[j].name) => i = j
    /\ UnitsReadable

\* The versions of a sequence of metadata records.
VersionsOf(infos) == [i \in 1..Len(infos) |-> infos[i].version]

\* C39: for a unit set with exactly one null-previous unit, pairwise distinct
\* version prefixes and well-formed metadata, the ordered version sequence
\* that build yields is the same for every enumeration order of the directory.
C39_ChainIndependentOfEnumerationOrder ==
    (BuildEnded /\ OrderPreconditions)
    => \A f \in Orders(Len(dir)) :
         LET other == BuildOver(FilterValid(Permuted(dir, f))) IN
         /\ bpc = "idle"
         /\ other.status = "returned"
         /\ VersionsOf(other.infos) = ChainVersions

\* C39 witness: a chain of MaxUnits nodes was built from a directory whose
\* first entry is not the head unit and whose last entry is not the tail unit.
C39_Witness ==
    /\ BuildReturned
    /\ OrderPreconditions
    /\ tail = MaxUnits
    /\ Len(dir) = MaxUnits
    /\ dir[1].info_toml.version # nodes[head].info.version
    /\ dir[Len(dir)].info_toml.version # nodes[tail].info.version

\* ------------------------------------------------------------------ resolved directory
\* The executor has resolved the directory of the node at its position.
NodeResolved ==
    /\ pos \in 1..Len(plan)
    /\ pc \in {"exec", "truncate", "insert"} \/ halt # "none"

\* The entry run_migration resolves for the node at its position (0 for none).
ResolvedEntry == resolve_dir(dir, nodes[plan[pos]].info.version, 0)

\* C40: for every node of a plan, the directory the executor resolves for it
\* exists and is the valid unit directory from which the chain builder read
\* that node's metadata; the executor never runs a script taken from an entry
\* the validity check rejected or from another unit's directory.
C40_ExecutorResolvesBuildersDirectory ==
    NodeResolved
    => /\ ResolvedEntry # 0
       /\ is_valid_migration_directory(dir[ResolvedEntry])
       /\ dir[ResolvedEntry].info_toml = nodes[plan[pos]].info

====
